---------------------------- MODULE Spec2Model ----------------------------
(***************************************************************************)
(* Model of pest-test's src/model.rs: the Expression tree, its decoder     *)
(* from S-expression pairs (try_from_sexpr), the adapter from an arbitrary *)
(* parser's pairs (try_from_code), the ExpressionFormatter and the         *)
(* TestCase assembler (try_from_pair).                                     *)
(*                                                                         *)
(* Text (String / &str) is a sequence of one-character strings.            *)
(* Option<T> is <<>> (None) or <<v>> (Some(v)).                            *)
(* Result<T, E> is [ok |-> TRUE, val |-> v] or [ok |-> FALSE, err |-> e].  *)
(* A pest Pair is [rule, str, inner]: as_rule(), as_str(), into_inner().   *)
(***************************************************************************)
EXTENDS Integers, Sequences, FiniteSets, TLC

VARIABLES
    pair,       \* the Pair handed to try_from_sexpr / try_from_code / try_from_pair
    returned,   \* Option<Result<..>>: None until the function has returned
    expression, \* the Expression handed to the top-level ExpressionFormatter::fmt
    level,      \* ExpressionFormatter.level
    color,      \* ExpressionFormatter.color : Option<Color>
    writer,     \* what the current top-level fmt call has passed to the sink
    stack,      \* the activation records of fmt (innermost last)
    outcome,    \* "idle" | "running" | "Ok" | "Err": the top-level fmt call
    entry       \* level at the moment the top-level fmt call was entered

vars == <<pair, returned, expression, level, color, writer, stack, outcome, entry>>

decodeVars == <<pair, returned>>
fmtVars == <<expression, level, color, writer, stack, outcome, entry>>

----------------------------------------------------------------------------
(* Bounds of the model *)

\* expression nodes per S-expression tree given to the decoder
MaxSexprNodes == 3

\* nodes per tree of the parser under test given to the adapter
MaxCodeNodes == 3

\* characters of the code section's text (the name section's: one fewer)
MaxTextLen == 4

\* sections of a malformed test case, and parts of a malformed code block
MaxSections == 4
MaxBlockParts == 3

\* nodes per Expression given to the formatter
MaxFmtNodes == 3

\* the nesting level the crate sets on a formatter before a render
MaxLevel == 2

----------------------------------------------------------------------------
(* Option, Result, Pair *)

None == <<>>
Some(v) == <<v>>

Ok(v) == [ok |-> TRUE, val |-> v]
Err(e) == [ok |-> FALSE, err |-> e]

Pair(rule, str, inner) == [rule |-> rule, str |-> str, inner |-> inner]

\* ModelError(String): the message, kept as its format string and arguments
MissingError(what) == [fmt |-> what]
\* {:?} of a Pair renders the node itself (rule, span, inner pairs)
ExpectedRuleError(p, rule) ==
    [fmt |-> "Expected pair {:?} rule to be {:?}", pair |-> p, expected |-> rule]
\* {:?} of a Rule renders the kind's name only
UnexpectedRuleError(rule) == [fmt |-> "Unexpected rule {:?}", rule |-> rule]

assert_rule(p, rule) ==
    IF p.rule = rule THEN Ok(p) ELSE Err(ExpectedRuleError(p, rule))

----------------------------------------------------------------------------
(* Expression *)

Terminal(name, value) == [tag |-> "Terminal", name |-> name, value |-> value]
NonTerminal(name, children) ==
    [tag |-> "NonTerminal", name |-> name, children |-> children]

----------------------------------------------------------------------------
(* Expression::try_from_sexpr *)

\* mutant: the first child's text is taken without asserting its rule
sexpr_name_unasserted(inner) ==
    IF Len(inner) = 0 THEN Err(MissingError("Missing rule name"))
    ELSE Ok(inner[1].str)

\* inner.next().ok_or_else(..).and_then(assert_rule(_, rule_name)).map(as_str)
sexpr_name(inner) ==
    IF Len(inner) = 0 THEN Err(MissingError("Missing rule name"))
    ELSE LET first == assert_rule(inner[1], "rule_name")
         IN  IF first.ok THEN Ok(first.val.str) ELSE first

\* mutant: a value node without inner token yields None, not Some("")
sexpr_value_conflated(inner) ==
    IF Len(inner) = 0 THEN Ok(None)
    ELSE LET tok == assert_rule(inner[1], "rule_value")
         IN  IF tok.ok THEN Ok(Some(tok.val.str)) ELSE tok

\* pair.into_inner().next().map(assert_rule(_, rule_value)).transpose()
\*     .map(|opt| opt.map(as_str).or_else(|| Some(String::new())))
sexpr_value(inner) ==
    IF Len(inner) = 0 THEN Ok(Some(<<>>))
    ELSE LET tok == assert_rule(inner[1], "rule_value")
         IN  IF tok.ok THEN Ok(Some(tok.val.str)) ELSE tok

RECURSIVE try_from_sexpr(_)
RECURSIVE collect_sexpr(_)

\* .map(|pair| Self::try_from_sexpr(pair)).collect::<Result<Vec<_>, _>>():
\* left to right, stopping at the first Err
collect_sexpr(pairs) ==
    IF Len(pairs) = 0 THEN Ok(<<>>)
    ELSE LET head == try_from_sexpr(Head(pairs))
         IN  IF ~head.ok THEN head
             ELSE LET rest == collect_sexpr(Tail(pairs))
                  IN  IF rest.ok THEN Ok(<<head.val>> \o rest.val) ELSE rest

try_from_sexpr(p) ==
    LET inner == p.inner
        name == sexpr_name(inner)
    IN  IF ~name.ok THEN name
        ELSE IF Len(inner) < 2 THEN Ok(Terminal(name.val, None))
        ELSE LET second == inner[2]
             IN  CASE second.rule = "sub_expressions" ->
                        LET children == collect_sexpr(second.inner)
                        IN  IF children.ok
                            THEN Ok(NonTerminal(name.val, children.val))
                            ELSE children
                   [] second.rule = "rule_value_str" ->
                        LET value == sexpr_value(second.inner)
                        IN  IF value.ok
                            THEN Ok(Terminal(name.val, value.val))
                            ELSE value
                   [] OTHER -> Err(UnexpectedRuleError(second.rule))

----------------------------------------------------------------------------
(* Pairs the S-expression parser can hand to the decoder, and malformed    *)
(* ones.  The span text of a structural pair is never read: it is empty.   *)

Tok(rule, str) == Pair(rule, str, <<>>)
NameTok == Tok("rule_name", <<"a">>)
ValueTok == Tok("rule_value", <<"x">>)

\* first children: a rule name, or a token of another kind
SexprFirsts == {NameTok, ValueTok}

\* value nodes: ':' alone, ':' with a quoted string, ':' with a wrong token
SexprValueNodes ==
    {Pair("rule_value_str", <<>>, in) : in \in {<<>>, <<ValueTok>>, <<NameTok>>}}

\* second children that are neither sub-expressions nor a value node
SexprOtherSeconds == {NameTok, Pair("expression", <<>>, <<NameTok>>)}

SubExpressions(kids) == Pair("sub_expressions", <<>>, kids)

RECURSIVE SexprNodes(_)
RECURSIVE SexprForests(_)

\* sequences of expression pairs holding m expression nodes in all
SexprForests(m) ==
    IF m = 0 THEN {<<>>}
    ELSE UNION {{<<t>> \o f : t \in SexprNodes(k), f \in SexprForests(m - k)} :
                k \in 1..m}

\* expression pairs holding exactly n expression nodes
SexprNodes(n) ==
    IF n = 1
    THEN {Pair("expression", <<>>, in) :
            in \in {<<>>} \cup {<<f>> : f \in SexprFirsts}
                   \cup {<<f, s>> : f \in SexprFirsts,
                                    s \in SexprValueNodes \cup SexprOtherSeconds
                                          \cup {SubExpressions(<<>>)}}}
    ELSE {Pair("expression", <<>>, <<f, SubExpressions(kids)>>) :
            f \in SexprFirsts, kids \in SexprForests(n - 1)}

SexprInputs == UNION {SexprNodes(n) : n \in 1..MaxSexprNodes}

----------------------------------------------------------------------------
(* The formatter at rest (ExpressionFormatter::from_defaults) *)

FmtAtRest ==
    /\ expression = Terminal(<<"a">>, None)
    /\ level = 0
    /\ color = None
    /\ writer = <<>>
    /\ stack = <<>>
    /\ outcome = "idle"
    /\ entry = 0

----------------------------------------------------------------------------
(* Specification of the decoder: one call of try_from_sexpr *)

InitDecode ==
    /\ pair \in SexprInputs
    /\ returned = None
    /\ FmtAtRest

Decode ==
    /\ returned = None
    /\ returned' = Some(try_from_sexpr(pair))
    /\ UNCHANGED <<pair, fmtVars>>

NextDecode == Decode

SpecDecode == InitDecode /\ [][NextDecode]_vars

----------------------------------------------------------------------------
(* Expression::try_from_code *)

\* the rule kinds of a parser under test, and what {:?} prints for each
CodeRules == {"A", "B"}
DebugRule(rule) == IF rule = "A" THEN <<"A">> ELSE <<"B">>

\* mutant: a single child is collapsed into a leaf as well
is_empty_or_single(children) == Len(children) <= 1

\* children.is_empty()
is_empty(children) == Len(children) = 0

RECURSIVE try_from_code(_)
RECURSIVE collect_code(_)

\* .map(|pair| Self::try_from_code(pair)).collect::<Result<Vec<_>, _>>()
collect_code(pairs) ==
    IF Len(pairs) = 0 THEN Ok(<<>>)
    ELSE LET head == try_from_code(Head(pairs))
         IN  IF ~head.ok THEN head
             ELSE LET rest == collect_code(Tail(pairs))
                  IN  IF rest.ok THEN Ok(<<head.val>> \o rest.val) ELSE rest

try_from_code(p) ==
    LET name == DebugRule(p.rule)
        value == p.str
        children == collect_code(p.inner)
    IN  IF ~children.ok THEN children
        ELSE IF is_empty(children.val) THEN Ok(Terminal(name, Some(value)))
        ELSE Ok(NonTerminal(name, children.val))

\* the matched text of a node of the parser under test
CodeTexts == {<<>>, <<"x">>}

RECURSIVE CodeNodes(_)
RECURSIVE CodeForests(_)

CodeForests(m) ==
    IF m = 0 THEN {<<>>}
    ELSE UNION {{<<t>> \o f : t \in CodeNodes(k), f \in CodeForests(m - k)} :
                k \in 1..m}

\* parser-output trees of exactly n nodes
CodeNodes(n) ==
    {Pair(r, t, kids) : r \in CodeRules, t \in CodeTexts, kids \in CodeForests(n - 1)}

CodeInputs == UNION {CodeNodes(n) : n \in 1..MaxCodeNodes}

(* Specification of the adapter: one call of try_from_code *)

InitAdapt ==
    /\ pair \in CodeInputs
    /\ returned = None
    /\ FmtAtRest

Adapt ==
    /\ returned = None
    /\ returned' = Some(try_from_code(pair))
    /\ UNCHANGED <<pair, fmtVars>>

NextAdapt == Adapt

SpecAdapt == InitAdapt /\ [][NextAdapt]_vars

----------------------------------------------------------------------------
(* TestCase::try_from_pair *)

TestCase(name, code, expr) == [name |-> name, code |-> code, expression |-> expr]

\* char::is_whitespace, on the characters the model draws text from
is_whitespace(c) == c \in {" ", "\n", "\t", "\r"}

RECURSIVE trim_start(_)
trim_start(s) ==
    IF Len(s) > 0 /\ is_whitespace(s[1]) THEN trim_start(Tail(s)) ELSE s

RECURSIVE trim_end(_)
trim_end(s) ==
    IF Len(s) > 0 /\ is_whitespace(s[Len(s)])
    THEN trim_end(SubSeq(s, 1, Len(s) - 1))
    ELSE s

\* mutant: only the leading whitespace is removed
trim_leading_only(s) == trim_start(s)

\* str::trim
trim(s) == trim_end(trim_start(s))

\* mutant: the i-th pair is taken without asserting its rule
next_unasserted(pairs, i, missing, rule) ==
    IF Len(pairs) < i THEN Err(MissingError(missing)) ELSE Ok(pairs[i])

\* the i-th .next() of an iterator over pairs:
\* .next().ok_or_else(|| ModelError::from_str(missing)).and_then(assert_rule(_, rule))
next_asserted(pairs, i, missing, rule) ==
    IF Len(pairs) < i THEN Err(MissingError(missing))
    ELSE assert_rule(pairs[i], rule)

try_from_pair(p) ==
    LET inner == p.inner
        name == next_asserted(inner, 1, "Missing test name", "test_name")
    IN  IF ~name.ok THEN name ELSE
        LET code_block == next_asserted(inner, 2, "Missing code block", "code_block")
        IN  IF ~code_block.ok THEN code_block ELSE
        LET parts == code_block.val.inner
            div == next_asserted(parts, 1, "Missing div", "div")
        IN  IF ~div.ok THEN div ELSE
        LET code == next_asserted(parts, 2, "Missing code", "code")
        IN  IF ~code.ok THEN code ELSE
        LET expr == next_asserted(inner, 3, "Missing expression", "expression")
        IN  IF ~expr.ok THEN expr ELSE
        LET decoded == try_from_sexpr(expr.val)
        IN  IF ~decoded.ok THEN decoded
            ELSE Ok(TestCase(trim(name.val.str), trim(code.val.str), decoded.val))

(* Test-case pairs: the sections of a test file as the outer parser hands  *)
(* them over, and malformed ones.                                          *)

RECURSIVE SeqsUpTo(_, _)
\* the sequences over S of length at most n
SeqsUpTo(S, n) ==
    IF n = 0 THEN {<<>>}
    ELSE SeqsUpTo(S, n - 1) \cup
         {Append(q, x) : q \in {r \in SeqsUpTo(S, n - 1) : Len(r) = n - 1}, x \in S}

NameChars == {" ", "a"}
CodeChars == {" ", "\n", "a"}

DivTok == Tok("div", <<"=", "=", "=">>)
GoodName == Tok("test_name", <<"a", " ", "\n">>)
GoodCode == Tok("code", <<"\n", "a", " ">>)
CodeBlock(parts) == Pair("code_block", <<>>, parts)
GoodBlock == CodeBlock(<<DivTok, GoodCode>>)
GoodSexpr ==
    Pair("expression", <<>>,
         <<NameTok, SubExpressions(<<Pair("expression", <<>>, <<NameTok>>)>>)>>)
Case(sections) == Pair("test_case", <<>>, sections)

\* every name text with every code text, the sections in place
TextCases ==
    {Case(<<Tok("test_name", n), CodeBlock(<<DivTok, Tok("code", c)>>), GoodSexpr>>) :
        n \in SeqsUpTo(NameChars, MaxTextLen - 1), c \in SeqsUpTo(CodeChars, MaxTextLen)}

\* sections missing, repeated, out of order, or followed by more
SectionCases ==
    {Case(secs) : secs \in SeqsUpTo({GoodName, GoodBlock, GoodSexpr, DivTok}, MaxSections)}

\* code blocks whose parts are missing, out of order, or followed by more
\* (a closing divider, or a pair of another kind in its place)
BlockCases ==
    {Case(<<GoodName, CodeBlock(parts), GoodSexpr>>) :
        parts \in SeqsUpTo({DivTok, GoodCode, GoodName}, MaxBlockParts)}

\* expression sections that do or do not decode
SexprCases == {Case(<<GoodName, GoodBlock, e>>) : e \in SexprNodes(1)}

CaseInputs == TextCases \cup SectionCases \cup BlockCases \cup SexprCases

(* Specification of the assembler: one call of try_from_pair *)

InitCase ==
    /\ pair \in CaseInputs
    /\ returned = None
    /\ FmtAtRest

Assemble ==
    /\ returned = None
    /\ returned' = Some(try_from_pair(pair))
    /\ UNCHANGED <<pair, fmtVars>>

NextCase == Assemble

SpecCase == InitCase /\ [][NextCase]_vars

----------------------------------------------------------------------------
(* ExpressionFormatter *)

\* from_defaults: indent: "  "
indent == <<" ", " ">>

\* what the sink receives in one write_str / write_char call: the text, and
\* the color it was wrapped with (Colorize::color), if any
Plain(text) == [text |-> text, style |-> None]
Colored(text, c) == [text |-> text, style |-> Some(c)]

\* one iteration of write_indent: self.writer.write_str(self.indent)
write_indent_unit == Plain(indent)

write_char(c, col) ==
    IF col = None THEN Plain(<<c>>) ELSE Colored(<<c>>, col[1])

\* self.writer.write_char('\n')
write_newline == Plain(<<"\n">>)

\* mutant: the color is dropped on the way to the sink
write_str_uncolored(str, col) == Plain(str)

write_str(str, col) ==
    IF col = None THEN Plain(str) ELSE Colored(str, col[1])

\* mutant: the children are rendered at the parent's level
enter_children_same_level(l) == l

\* self.level += 1  (level is a usize; write_indent makes `level` writes per
\* line, so the levels a render can reach are far below usize::MAX)
enter_children(l) == l + 1

\* mutant: the level is not restored after the children
leave_children_forgotten(l) == l

\* self.level -= 1
leave_children(l) == l - 1

\* mutant: every NonTerminal takes the arm that renders children
after_name_no_empty_arm(e) ==
    IF e.tag = "Terminal"
    THEN (IF e.value # None THEN "sep" ELSE "close")
    ELSE "newline"

\* the arm of `match expression` once the name is written
after_name(e) ==
    IF e.tag = "Terminal"
    THEN (IF e.value # None THEN "sep" ELSE "close")
    ELSE IF Len(e.children) = 0 THEN "close"
    ELSE "newline"

\* an activation of fmt: its argument, where it stands, the counter of the
\* write_indent loop it is in and the index of the next child
Frame(e) == [expr |-> e, pc |-> "indent", k |-> 0, i |-> 1]

Top == stack[Len(stack)]
Caller == SubSeq(stack, 1, Len(stack) - 1)
At(f) == Append(Caller, f)

\* a write to the sink: it succeeds and fmt goes on with `next`, or the sink
\* fails and `?` returns the error through every activation
SinkWrite(unit, next) ==
    \/ /\ writer' = Append(writer, unit)
       /\ stack' = next
       /\ outcome' = IF next = <<>> THEN "Ok" ELSE "running"
    \/ /\ writer' = writer
       /\ stack' = <<>>
       /\ outcome' = "Err"

\* the Expressions handed to the formatter
FmtNames == {<<"a">>, <<"b">>}
FmtValues == {None, Some(<<>>), Some(<<"x">>)}
FmtColors == {"Red"}

RECURSIVE FmtNodes(_)
RECURSIVE FmtForests(_)

FmtForests(m) ==
    IF m = 0 THEN {<<>>}
    ELSE UNION {{<<t>> \o f : t \in FmtNodes(k), f \in FmtForests(m - k)} :
                k \in 1..m}

\* Expressions of exactly n nodes (the inner nodes share one name)
FmtNodes(n) ==
    IF n = 1
    THEN {Terminal(nm, v) : nm \in FmtNames, v \in FmtValues}
            \cup {NonTerminal(nm, <<>>) : nm \in FmtNames}
    ELSE {NonTerminal(<<"a">>, kids) : kids \in FmtForests(n - 1)}

FmtInputs == UNION {FmtNodes(n) : n \in 1..MaxFmtNodes}

(* Specification of the formatter *)

NoPair == Pair("expression", <<>>, <<>>)

InitFmt ==
    /\ pair = NoPair
    /\ returned = None
    /\ FmtAtRest

\* the crate sets the pub(crate) fields level and color between renders
Configure(l, c) ==
    /\ outcome = "idle"
    /\ level' = l
    /\ color' = c
    /\ entry' = l
    /\ UNCHANGED <<expression, writer, stack, outcome, decodeVars>>

\* a top-level call of fmt
Call(e) ==
    /\ outcome = "idle"
    /\ level <= MaxLevel
    /\ expression' = e
    /\ entry' = level
    /\ writer' = <<>>
    /\ stack' = <<Frame(e)>>
    /\ outcome' = "running"
    /\ UNCHANGED <<level, color, decodeVars>>

\* the caller takes the FmtResult of the top-level call; the formatter, with
\* the level the call left, is free for the next render
TakeResult ==
    /\ outcome \in {"Ok", "Err"}
    /\ outcome' = "idle"
    /\ expression' = Terminal(<<"a">>, None)
    /\ writer' = <<>>
    /\ entry' = level
    /\ UNCHANGED <<level, color, stack, decodeVars>>

InIndentLoop == stack # <<>> /\ Top.pc \in {"indent", "indent_close"}

\* write_indent: for _ in 0..self.level { self.writer.write_str(self.indent)? }
WriteIndent ==
    /\ InIndentLoop
    /\ Top.k < level
    /\ SinkWrite(write_indent_unit, At([Top EXCEPT !.k = @ + 1]))
    /\ UNCHANGED <<expression, level, color, entry, decodeVars>>

IndentDone ==
    /\ InIndentLoop
    /\ Top.k >= level
    /\ stack' = At([Top EXCEPT !.pc = IF @ = "indent" THEN "open" ELSE "close"])
    /\ UNCHANGED <<expression, level, color, writer, outcome, entry, decodeVars>>

WriteOpen ==
    /\ stack # <<>> /\ Top.pc = "open"
    /\ SinkWrite(write_char("(", color), At([Top EXCEPT !.pc = "name"]))
    /\ UNCHANGED <<expression, level, color, entry, decodeVars>>

WriteName ==
    /\ stack # <<>> /\ Top.pc = "name"
    /\ SinkWrite(write_str(Top.expr.name, color),
                 At([Top EXCEPT !.pc = after_name(Top.expr)]))
    /\ UNCHANGED <<expression, level, color, entry, decodeVars>>

WriteSeparator ==
    /\ stack # <<>> /\ Top.pc = "sep"
    /\ SinkWrite(write_str(<<":", " ">>, color), At([Top EXCEPT !.pc = "value"]))
    /\ UNCHANGED <<expression, level, color, entry, decodeVars>>

WriteValue ==
    /\ stack # <<>> /\ Top.pc = "value"
    /\ SinkWrite(write_str(Top.expr.value[1], color), At([Top EXCEPT !.pc = "close"]))
    /\ UNCHANGED <<expression, level, color, entry, decodeVars>>

\* write_char(')') and Ok(()): the activation returns to its caller
WriteClose ==
    /\ stack # <<>> /\ Top.pc = "close"
    /\ SinkWrite(write_char(")", color), Caller)
    /\ UNCHANGED <<expression, level, color, entry, decodeVars>>

WriteNameNewline ==
    /\ stack # <<>> /\ Top.pc = "newline"
    /\ SinkWrite(write_newline, At([Top EXCEPT !.pc = "enter"]))
    /\ UNCHANGED <<expression, level, color, entry, decodeVars>>

EnterChildren ==
    /\ stack # <<>> /\ Top.pc = "enter"
    /\ level' = enter_children(level)
    /\ stack' = At([Top EXCEPT !.pc = "children", !.i = 1])
    /\ UNCHANGED <<expression, color, writer, outcome, entry, decodeVars>>

\* self.fmt(child)?
CallChild ==
    /\ stack # <<>> /\ Top.pc = "children"
    /\ Top.i <= Len(Top.expr.children)
    /\ stack' = Append(At([Top EXCEPT !.pc = "child_newline"]),
                       Frame(Top.expr.children[Top.i]))
    /\ UNCHANGED <<expression, level, color, writer, outcome, entry, decodeVars>>

WriteChildNewline ==
    /\ stack # <<>> /\ Top.pc = "child_newline"
    /\ SinkWrite(write_newline, At([Top EXCEPT !.pc = "children", !.i = @ + 1]))
    /\ UNCHANGED <<expression, level, color, entry, decodeVars>>

LeaveChildren ==
    /\ stack # <<>> /\ Top.pc = "children"
    /\ Top.i > Len(Top.expr.children)
    /\ level' = leave_children(level)
    /\ stack' = At([Top EXCEPT !.pc = "indent_close", !.k = 0])
    /\ UNCHANGED <<expression, color, writer, outcome, entry, decodeVars>>

NextFmt ==
    \/ \E l \in 0..MaxLevel, c \in {None} \cup {Some(x) : x \in FmtColors} :
          Configure(l, c)
    \/ \E e \in FmtInputs : Call(e)
    \/ TakeResult
    \/ WriteIndent
    \/ IndentDone
    \/ WriteOpen
    \/ WriteName
    \/ WriteSeparator
    \/ WriteValue
    \/ WriteClose
    \/ WriteNameNewline
    \/ EnterChildren
    \/ CallChild
    \/ WriteChildNewline
    \/ LeaveChildren

SpecFmt == InitFmt /\ [][NextFmt]_vars

----------------------------------------------------------------------------
(* Shapes of an S-expression pair, read off the pair itself *)

Result == returned[1]

NameMissingAt(p) == Len(p.inner) = 0 \/ p.inner[1].rule # "rule_name"

\* the sub-expressions nested directly under an expression pair
NestedSexprs(p) ==
    IF Len(p.inner) >= 2 /\ p.inner[2].rule = "sub_expressions"
    THEN p.inner[2].inner
    ELSE <<>>

\* a second child that is neither of the two kinds, or a value node whose
\* inner token is not a value token
SecondChildDefect(p) ==
    /\ Len(p.inner) >= 2
    /\ \/ p.inner[2].rule \notin {"sub_expressions", "rule_value_str"}
       \/ /\ p.inner[2].rule = "rule_value_str"
          /\ Len(p.inner[2].inner) > 0
          /\ p.inner[2].inner[1].rule # "rule_value"

RECURSIVE MissingRuleName(_)
MissingRuleName(p) ==
    \/ NameMissingAt(p)
    \/ \E i \in DOMAIN NestedSexprs(p) : MissingRuleName(NestedSexprs(p)[i])

RECURSIVE OtherDefect(_)
OtherDefect(p) ==
    \/ SecondChildDefect(p)
    \/ \E i \in DOMAIN NestedSexprs(p) : OtherDefect(NestedSexprs(p)[i])

\* conforms to  expr := "(" rule_name (value | "(" expr* ")")? ")"
WellFormedSexpr(p) == ~MissingRuleName(p) /\ ~OtherDefect(p)

RECURSIVE FirstDefect(_)
RECURSIVE FirstDefectIn(_)
\* the kind of the first malformed place in source order
FirstDefect(p) ==
    IF NameMissingAt(p) THEN "name"
    ELSE IF SecondChildDefect(p) THEN "other"
    ELSE FirstDefectIn(NestedSexprs(p))
FirstDefectIn(ps) ==
    IF Len(ps) = 0 THEN "none"
    ELSE IF FirstDefect(Head(ps)) # "none" THEN FirstDefect(Head(ps))
    ELSE FirstDefectIn(Tail(ps))

IsMissingRuleNameError(e) ==
    \/ e.fmt = "Missing rule name"
    \/ /\ e.fmt = "Expected pair {:?} rule to be {:?}"
       /\ e.expected = "rule_name"

----------------------------------------------------------------------------
(* C1: a pair that conforms to the expected-tree grammar decodes to Ok, and
   the second child alone fixes the variant: none gives Terminal with value
   None; a value node gives Terminal with Some(inner text), Some("") when it
   has no inner token; a sub-expressions node gives NonTerminal with the
   decoded sub-expressions in source order, also when there are none. *)
C1_DecodeByChild ==
    (returned # None /\ WellFormedSexpr(pair)) =>
        LET inner == pair.inner
            name == inner[1].str
        IN  /\ Result.ok
            /\ (Len(inner) = 1 => Result.val = Terminal(name, None))
            /\ (Len(inner) >= 2 /\ inner[2].rule = "rule_value_str") =>
                 Result.val =
                    Terminal(name,
                             IF Len(inner[2].inner) = 0 THEN Some(<<>>)
                             ELSE Some(inner[2].inner[1].str))
            /\ (Len(inner) >= 2 /\ inner[2].rule = "sub_expressions") =>
                 /\ Result.val.tag = "NonTerminal"
                 /\ Result.val.name = name
                 /\ Len(Result.val.children) = Len(inner[2].inner)
                 /\ \A i \in DOMAIN inner[2].inner :
                       Result.val.children[i] =
                          try_from_sexpr(inner[2].inner[i]).val

\* a decoded (name (name:) (name ())) : value node without token, then empty
\* sub-expression brackets
C1_Witness ==
    /\ returned # None
    /\ WellFormedSexpr(pair)
    /\ Len(NestedSexprs(pair)) = 2
    /\ Result.ok
    /\ Result.val.children =
          <<Terminal(<<"a">>, Some(<<>>)), NonTerminal(<<"a">>, <<>>)>>

(* C8 as claimed: whenever the root or a nested sub-expression lacks its
   rule name, the decode fails with an error that identifies the missing
   rule name. *)
C8_AsClaimed ==
    (returned # None /\ MissingRuleName(pair)) =>
        ~Result.ok /\ IsMissingRuleNameError(Result.err)

(* C8 as amended: whenever the root or a nested sub-expression lacks its
   rule name, the decode fails and returns no Expression; the error is that
   of the first malformed place in source order, so it identifies the
   missing rule name exactly when no other defect comes first. *)
C8_NoPartialResult ==
    (returned # None /\ MissingRuleName(pair)) =>
        /\ ~Result.ok
        /\ "val" \notin DOMAIN Result
        /\ (IsMissingRuleNameError(Result.err) <=> FirstDefect(pair) = "name")

\* the rule name is missing two levels below a sound root and a sound child
C8_Witness ==
    /\ returned # None
    /\ ~NameMissingAt(pair)
    /\ \E i \in DOMAIN NestedSexprs(pair) :
          LET child == NestedSexprs(pair)[i]
          IN  /\ ~NameMissingAt(child)
              /\ \E j \in DOMAIN NestedSexprs(child) :
                    NameMissingAt(NestedSexprs(child)[j])
    /\ ~Result.ok
    /\ IsMissingRuleNameError(Result.err)

(* C9 as claimed: a second child that is neither a sub-expressions node nor
   a value node fails the decode with an "unexpected rule" error that
   carries the offending rule kind and a rendering of the offending node. *)
C9_AsClaimed ==
    (/\ returned # None
     /\ ~NameMissingAt(pair)
     /\ Len(pair.inner) >= 2
     /\ pair.inner[2].rule \notin {"sub_expressions", "rule_value_str"}) =>
        /\ ~Result.ok
        /\ Result.err.fmt = "Unexpected rule {:?}"
        /\ Result.err.rule = pair.inner[2].rule
        /\ "pair" \in DOMAIN Result.err
        /\ Result.err.pair = pair.inner[2]

----------------------------------------------------------------------------
(* C2: try_from_code never fails, and the child count alone decides the
   result: no children gives Terminal with value Some(matched text); one or
   more children, exactly one included, gives NonTerminal whose children are
   the adapted child nodes in the same order. *)
C2_AdaptByChildCount ==
    returned # None =>
        /\ Result.ok
        /\ Len(pair.inner) = 0 =>
              Result.val = Terminal(DebugRule(pair.rule), Some(pair.str))
        /\ Len(pair.inner) >= 1 =>
              /\ Result.val.tag = "NonTerminal"
              /\ Result.val.name = DebugRule(pair.rule)
              /\ Len(Result.val.children) = Len(pair.inner)
              /\ \A i \in DOMAIN pair.inner :
                    Result.val.children[i] = try_from_code(pair.inner[i]).val

\* a node with exactly one child, itself with exactly one child, was adapted
C2_Witness ==
    /\ returned # None
    /\ Len(pair.inner) = 1
    /\ Len(pair.inner[1].inner) = 1
    /\ Result.ok
    /\ Result.val.tag = "NonTerminal"
    /\ Result.val.children[1].tag = "NonTerminal"

----------------------------------------------------------------------------
(* Shapes of a test-case pair, read off the pair itself *)

HasRuleAt(pairs, i, rule) == Len(pairs) >= i /\ pairs[i].rule = rule

\* the name section, the code block with its opening divider and its code,
\* and the expression section, each in its place
FourSections(p) ==
    /\ HasRuleAt(p.inner, 1, "test_name")
    /\ HasRuleAt(p.inner, 2, "code_block")
    /\ HasRuleAt(p.inner[2].inner, 1, "div")
    /\ HasRuleAt(p.inner[2].inner, 2, "code")
    /\ HasRuleAt(p.inner, 3, "expression")

\* the same, and a second divider after the code
FiveSections(p) ==
    /\ FourSections(p)
    /\ HasRuleAt(p.inner[2].inner, 3, "div")

\* t is s without its leading and trailing whitespace, the interior kept
IsTrimOf(t, s) ==
    \E i \in 1..(Len(s) + 1) : \E j \in 0..Len(s) :
        /\ t = SubSeq(s, i, j)
        /\ \A k \in 1..(i - 1) : is_whitespace(s[k])
        /\ \A k \in (j + 1)..Len(s) : is_whitespace(s[k])
        /\ Len(t) > 0 => ~is_whitespace(t[1]) /\ ~is_whitespace(t[Len(t)])

(* C3 as claimed: try_from_pair fails whenever one of the five sections
   (name, first divider, code, second divider, expression) is missing, out
   of order or of the wrong kind; in particular when the second divider is
   absent or a pair of another kind stands in its place. *)
C3_AsClaimed ==
    (returned # None /\ ~FiveSections(pair)) => ~Result.ok

(* C3 as amended: try_from_pair fails whenever the name section, the code
   block, the divider that opens the block, the code section or the
   expression section is missing, out of place or of the wrong kind, and
   whenever the expression does not decode; it succeeds otherwise, whatever
   follows the code inside the block: a second divider is not looked at. *)
C3_FourSectionsChecked ==
    returned # None =>
        (Result.ok <=>
            (FourSections(pair) /\ try_from_sexpr(pair.inner[3]).ok))

\* a code block that holds its divider but no code is rejected
C3_Witness ==
    /\ returned # None
    /\ HasRuleAt(pair.inner, 2, "code_block")
    /\ Len(pair.inner[2].inner) = 1
    /\ HasRuleAt(pair.inner, 3, "expression")
    /\ ~Result.ok
    /\ Result.err = MissingError("Missing code")

(* C4: for a well-formed section sequence try_from_pair returns Ok with the
   name section's text trimmed, the code section's text trimmed (interior
   newlines and indentation kept) and the expression that try_from_sexpr
   gives for the expression section. *)
C4_TrimmedCase ==
    (/\ returned # None
     /\ FourSections(pair)
     /\ try_from_sexpr(pair.inner[3]).ok) =>
        /\ Result.ok
        /\ IsTrimOf(Result.val.name, pair.inner[1].str)
        /\ IsTrimOf(Result.val.code, pair.inner[2].inner[2].str)
        /\ Result.val.expression = try_from_sexpr(pair.inner[3]).val

\* code with whitespace on both sides and a newline inside, name with
\* whitespace on both sides
C4_Witness ==
    /\ returned # None
    /\ FourSections(pair)
    /\ pair.inner[1].str = <<" ", "a", " ">>
    /\ pair.inner[2].inner[2].str = <<"\n", "a", "\n", "a">>
    /\ Result.ok
    /\ Result.val.name = <<"a">>
    /\ Result.val.code = <<"a", "\n", "a">>

----------------------------------------------------------------------------
(* What the sink holds, read off the writes themselves *)

IsNewline(u) == u.text = <<"\n">>
IsIndent(u) == u.text = indent
IsOpen(u) == u.text = <<"(">>
IsClose(u) == u.text = <<")">>

\* position p opens a line of the output
LineStart(p) == p = 1 \/ IsNewline(writer[p - 1])

\* the first position from p on that holds no indent unit
FirstAfterIndent(p) ==
    CHOOSE q \in p..(Len(writer) + 1) :
        /\ \A r \in p..(q - 1) : IsIndent(writer[r])
        /\ q <= Len(writer) => ~IsIndent(writer[q])

\* parentheses opened and not yet closed before position p
NestingBefore(p) ==
    Cardinality({r \in 1..(p - 1) : IsOpen(writer[r])})
        - Cardinality({r \in 1..(p - 1) : IsClose(writer[r])})

\* l copies of the indent unit, then "(", the name and ")"
BareForm(name, l, col) ==
    [r \in 1..l |-> [text |-> indent, style |-> None]]
        \o <<[text |-> <<"(">>, style |-> col],
             [text |-> name, style |-> col],
             [text |-> <<")">>, style |-> col]>>

(* C5: a Terminal without value and a NonTerminal without children of the
   same name, rendered from the same level, give the sink the same writes:
   the indent of that level, then "(name)", and no newline. *)
C5_SameBareForm ==
    (/\ outcome = "Ok"
     /\ \/ expression.tag = "Terminal" /\ expression.value = None
        \/ expression.tag = "NonTerminal" /\ Len(expression.children) = 0) =>
        writer = BareForm(expression.name, entry, color)

\* an empty NonTerminal rendered in color from level 2
C5_Witness ==
    /\ outcome = "Ok"
    /\ expression = NonTerminal(<<"b">>, <<>>)
    /\ entry = 2
    /\ color # None
    /\ Len(writer) = 5

(* C6: in a finished render every line starts with as many indent units as
   the level of the top call plus the number of parentheses open before it;
   so the children of a NonTerminal at level L each start a line of their
   own after exactly L+1 indent units, and its closing ")" stands alone on
   a line after exactly L indent units, at every depth. *)
C6_IndentByDepth ==
    outcome = "Ok" =>
        \A p \in 1..Len(writer) :
            /\ (IsIndent(writer[p]) \/ IsOpen(writer[p])) =>
                  (LineStart(p) \/ IsIndent(writer[p - 1]))
            /\ LineStart(p) =>
                  LET q == FirstAfterIndent(p)
                      n == q - p
                  IN  /\ q <= Len(writer)
                      /\ \/ /\ IsOpen(writer[q])
                            /\ n = entry + NestingBefore(p)
                         \/ /\ IsClose(writer[q])
                            /\ n = entry + NestingBefore(p) - 1
                            /\ q = Len(writer) \/ IsNewline(writer[q + 1])

\* three levels deep from level 1: the grandchild's line has three indent
\* units, the two closing lines have two and one
C6_Witness ==
    /\ outcome = "Ok"
    /\ entry = 1
    /\ expression.tag = "NonTerminal"
    /\ Len(expression.children) = 1
    /\ expression.children[1].tag = "NonTerminal"
    /\ Len(expression.children[1].children) = 1
    /\ \E p \in 1..Len(writer) :
          /\ LineStart(p)
          /\ FirstAfterIndent(p) = p + 3
          /\ IsOpen(writer[p + 3])
    /\ IsNewline(writer[Len(writer) - 2])
    /\ IsIndent(writer[Len(writer) - 1])
    /\ IsClose(writer[Len(writer)])

(* C7 as claimed: with a color configured, every write that reaches the
   sink during a render is wrapped with that color: parentheses, names,
   ": ", values, indentation and newlines. *)
C7_AsClaimed ==
    color # None =>
        \A p \in 1..Len(writer) : writer[p].style = color

(* C7 as amended: with a color configured, every write made through
   write_char and write_str (parentheses, names, ": " and values) is
   wrapped with that color; the indent units and the newlines are written
   to the sink as they are, unstyled. *)
C7_ColorExceptWhitespace ==
    color # None =>
        \A p \in 1..Len(writer) :
            writer[p].style =
                IF IsIndent(writer[p]) \/ IsNewline(writer[p])
                THEN None ELSE color

\* a colored render that wrote indentation, newlines, ": " and a value
C7_Witness ==
    /\ outcome = "Ok"
    /\ color # None
    /\ \E p \in 1..Len(writer) : IsIndent(writer[p])
    /\ \E p \in 1..Len(writer) : IsNewline(writer[p])
    /\ \E p \in 1..Len(writer) :
          writer[p] = [text |-> <<"x">>, style |-> color]

(* C10: a call of fmt that returns Ok leaves the level as it found it, and
   while the call runs the level never falls below that value. *)
C10_LevelRestored ==
    /\ outcome = "Ok" => level = entry
    /\ outcome = "running" => level >= entry

\* a tree three levels deep rendered from level 1 returned Ok
C10_Witness ==
    /\ outcome = "Ok"
    /\ entry = 1
    /\ level = 1
    /\ expression.tag = "NonTerminal"
    /\ Len(expression.children) = 1
    /\ expression.children[1].tag = "NonTerminal"
    /\ Len(expression.children[1].children) = 1

=============================================================================
